---------------------------- MODULE Spec2Model ----------------------------
(***************************************************************************)
(* A model of tools/compiler.py of Minijail: the compiler of a parsed      *)
(* seccomp policy into a BPF program.                                      *)
(*                                                                         *)
(* The IR nodes of bpf.py are records with a "kind" field:                 *)
(*   action        a terminal action (Allow, a kill variant, an errno)     *)
(*   atom          bpf.Atom: one comparison of a 64-bit argument           *)
(*   wide          bpf.WideAtom: one comparison of one half of an argument *)
(*   block         a flattened bpf.BasicBlock                              *)
(*   syscall       bpf.SyscallEntry: one comparison of the syscall number  *)
(*   validate_arch bpf.ValidateArch                                        *)
(* Python integers are unbounded.  TLC's are 32 bits wide, so the syscall  *)
(* number domain 0 .. 2**64 - 1 is scaled to 0 .. MaxNumber and the 64-bit *)
(* arguments to 2 * WordBits bits.                                         *)
(*                                                                         *)
(* Three specifications share the actions:                                 *)
(*   Spec           compile_file on a policy file, then bpf.simulate       *)
(*   SpecStatement  compile_filter_statement on one statement, then        *)
(*                  SyscallPolicyEntry.simulate                            *)
(*   SpecDispatch   _compile_entries_linear and _compile_entries_bst on a  *)
(*                  list of compiled entries                               *)
(***************************************************************************)
EXTENDS Integers, Sequences, FiniteSets, TLC

VARIABLES
    pc,                     \* position in compile_file
    policy_filename,        \* the policy the file holds (what parse_file will yield)
    optimization_strategy,  \* keyword argument of compile_file
    kill_action,            \* keyword argument of compile_file
    parsed_policy,          \* local of compile_file
    entries,                \* local of compile_file, sorted in place by the dispatch compilers
    policy_filter,          \* local of the latest compile_filter_statement call, before lowering
    stack,                  \* call stack of _generate_syscall_bst
    ret,                    \* value returned by the latest _generate_syscall_bst call
    next_action,            \* local of compile_file: the dispatch root
    visited,                \* nodes handed to the flattening visitor of compile_file, in order
    result,                 \* visitor.result, the value compile_file returns
    arch,                   \* self._arch of the PolicyCompiler
    sim                     \* latest simulation: its inputs and its outcome

vars == <<pc, policy_filename, optimization_strategy, kill_action, parsed_policy,
          entries, policy_filter, stack, ret, next_action, visited, result, arch, sim>>

\* ------------------------------------------------------------------ bounds

\* Top of the syscall number domain (2**64 - 1 in the source).
MaxNumber == 3
\* Longest entry list handed to the dispatch compilers.
MaxEntries == 3
\* Most clauses of one filter statement, the final one included.
MaxFilters == 3
\* Most statements of a policy file.
MaxStatements == 3
\* Width of a machine word; an argument is two words wide.
WordBits == 1

\* ------------------------------------------------------------- IR (bpf.py)

None == [kind |-> "none"]

Action(name) == [kind |-> "action", name |-> name]

Allow == Action("ALLOW")

KillProcess == Action("KILL_PROCESS")

KillThread == Action("KILL_THREAD")

ReturnErrno == Action("ERRNO")

Atom(argument_index, op, value, jt, jf) ==
    [kind |-> "atom", argument_index |-> argument_index, op |-> op,
     value |-> value, jt |-> jt, jf |-> jf]

WideAtom(argument_index, half, op, value, jt, jf) ==
    [kind |-> "wide", argument_index |-> argument_index, half |-> half,
     op |-> op, value |-> value, jt |-> jt, jf |-> jf]

BasicBlock(root) == [kind |-> "block", root |-> root]

SyscallEntry(number, jt, jf, op) ==
    [kind |-> "syscall", number |-> number, jt |-> jt, jf |-> jf, op |-> op]

ValidateArch(next) == [kind |-> "validate_arch", next |-> next]

WordSize == 2 ^ WordBits

Hi(v) == v \div WordSize

Lo(v) == v % WordSize

\* LoweringVisitor.process: every Atom becomes WideAtoms on the two halves.
RECURSIVE Lower(_)
Lower(node) ==
    IF node.kind # "atom" THEN node
    ELSE LET t == Lower(node.jt)
             f == Lower(node.jf)
             i == node.argument_index
         IN  IF node.op = "=="
             THEN WideAtom(i, "hi", "==", Hi(node.value),
                           WideAtom(i, "lo", "==", Lo(node.value), t, f), f)
             ELSE WideAtom(i, "hi", "!=", Hi(node.value), t,
                           WideAtom(i, "lo", "!=", Lo(node.value), t, f))

\* FlatteningVisitor on one DAG: a single BasicBlock with the DAG's semantics.
Flatten(node) == BasicBlock(node)

Compare(op, a, b) == IF op = "==" THEN a = b ELSE a # b

\* bpf.simulate on an argument DAG: the name of the action it ends at.
RECURSIVE Run(_, _)
Run(node, args) ==
    CASE node.kind = "action" -> node.name
      [] node.kind = "block" -> Run(node.root, args)
      [] node.kind = "atom" ->
            IF Compare(node.op, args[node.argument_index + 1], node.value)
            THEN Run(node.jt, args) ELSE Run(node.jf, args)
      [] node.kind = "wide" ->
            LET a == args[node.argument_index + 1]
                h == IF node.half = "hi" THEN Hi(a) ELSE Lo(a)
            IN  IF Compare(node.op, h, node.value)
                THEN Run(node.jt, args) ELSE Run(node.jf, args)

\* ------------------------------------------------------ SyscallPolicyEntry

SyscallPolicyEntry(name, number, frequency) ==
    [name |-> name, number |-> number, frequency |-> frequency,
     accumulated |-> 0, filter |-> None]

\* Python truth of entry.filter: None is false, a BasicBlock is true.
HasFilter(entry) == entry.filter.kind # "none"

EntrySimulate(entry, running_arch, syscall_number, args) ==
    IF ~HasFilter(entry) THEN "ALLOW" ELSE Run(entry.filter, args)

\* ------------------------------------------------ compile_filter_statement

\* for atom in disjunction: block = Atom(..., true_action, false_action)
RECURSIVE ChainAtoms(_, _, _, _)
ChainAtoms(conjunction, k, true_action, false_action) ==
    IF k > Len(conjunction) THEN true_action
    ELSE ChainAtoms(conjunction, k + 1,
                    Atom(conjunction[k].argument_index, conjunction[k].op,
                         conjunction[k].value, true_action, false_action),
                    false_action)

\* for disjunction in filt.expression: ...; false_action = true_action
RECURSIVE ChainExpression(_, _, _, _)
ChainExpression(expression, k, action, false_action) ==
    IF k > Len(expression) THEN false_action
    ELSE ChainExpression(expression, k + 1, action,
                         ChainAtoms(expression[k], 1, action, false_action))

\* ChainFilters taking the clauses in declaration order, so that the last
\* declared clause is tested first.
RECURSIVE ChainForward(_, _, _, _)
ChainForward(filters, j, k, false_action) ==
    IF j > k THEN false_action
    ELSE ChainForward(filters, j + 1, k,
                      ChainExpression(filters[j].expression, 1,
                                      filters[j].action, false_action))

ChainFiltersInOrder(filters, k, false_action) ==
    ChainForward(filters, 1, k, false_action)

\* for filt in filter_statement.filters[:-1][::-1]: k runs from the last but
\* one clause down to the first.
RECURSIVE ChainFilters(_, _, _)
ChainFilters(filters, k, false_action) ==
    IF k < 1 THEN false_action
    ELSE ChainFilters(filters, k - 1,
                      ChainExpression(filters[k].expression, 1,
                                      filters[k].action, false_action))

\* BuildPolicyFilter without the early return of line 240.
BuildPolicyFilterAlways(filter_statement) ==
    LET filters == filter_statement.filters
    IN  ChainFilters(filters, Len(filters) - 1, filters[Len(filters)].action)

\* The local policy_filter of compile_filter_statement before lowering; None
\* when the function returns early.
BuildPolicyFilter(filter_statement) ==
    LET filters == filter_statement.filters
        false_action == filters[Len(filters)].action
    IN  IF false_action = Allow THEN None
        ELSE ChainFilters(filters, Len(filters) - 1, false_action)

compile_filter_statement(filter_statement) ==
    LET policy_entry == SyscallPolicyEntry(filter_statement.syscall.name,
                                           filter_statement.syscall.number,
                                           filter_statement.frequency)
        dag == BuildPolicyFilter(filter_statement)
    IN  IF dag.kind = "none" THEN policy_entry
        ELSE [policy_entry EXCEPT !.filter = Flatten(Lower(dag))]

\* --------------------------------------------------------- Python lists

\* s[i] with Python's 0-based index.
At(s, i) == s[i + 1]

\* s[i:]
From(s, i) == SubSeq(s, i + 1, Len(s))

\* s[:i]
Upto(s, i) == SubSeq(s, 1, i)

\* list.sort(key=...): ascending by key, stable; key[k] is the key of s[k].
Sort(s, key) ==
    LET Rank(i) == Cardinality({j \in 1..Len(s) :
                        key[j] < key[i] \/ (key[j] = key[i] /\ j < i)}) + 1
    IN  [k \in 1..Len(s) |-> s[CHOOSE i \in 1..Len(s) : Rank(i) = k]]

\* ------------------------------------------------ _compile_entries_linear

\* The jump target of an entry: its filter, or the accept action.
Target(entry, accept_action) ==
    IF HasFilter(entry) THEN entry.filter ELSE accept_action

\* The entry.filter.accept(visitor) call that goes with Target.
Accepted(entry) == IF HasFilter(entry) THEN <<entry.filter>> ELSE <<>>

SortByFrequency(es) == Sort(es, [k \in 1..Len(es) |-> -es[k].frequency])

\* for entry in entries[::-1]: k runs from the last entry down to the first.
RECURSIVE LinearChain(_, _, _, _)
LinearChain(es, k, accept_action, next) ==
    IF k < 1 THEN next
    ELSE LinearChain(es, k - 1, accept_action,
                     SyscallEntry(es[k].number, Target(es[k], accept_action),
                                  next, "JEQ"))

RECURSIVE LinearAccepted(_, _)
LinearAccepted(es, k) ==
    IF k < 1 THEN <<>> ELSE Accepted(es[k]) \o LinearAccepted(es, k - 1)

compile_entries_linear(es, accept_action, reject_action) ==
    LinearChain(SortByFrequency(es), Len(es), accept_action, reject_action)

\* --------------------------------------------------- _compile_entries_bst

SortByNumber(es) == Sort(es, [k \in 1..Len(es) |-> es[k].number])

RECURSIVE SumFrequency(_, _)
SumFrequency(es, k) ==
    IF k < 1 THEN 0 ELSE SumFrequency(es, k - 1) + es[k].frequency

\* entries.sort(key=number), then the running sum into entry.accumulated.
Accumulate(es) ==
    LET sorted == SortByNumber(es)
    IN  [k \in 1..Len(sorted) |->
            [sorted[k] EXCEPT !.accumulated = SumFrequency(sorted, k)]]

Abs(x) == IF x < 0 THEN -x ELSE x

\* The initial best = (1e99, -1).
Huge == 2 ^ 30

\* min() of two tuples.
TupleMin(a, b) ==
    IF a[1] < b[1] \/ (a[1] = b[1] /\ a[2] <= b[2]) THEN a ELSE b

\* The value of one candidate index i in the loop of _generate_syscall_bst.
SplitCost(es, i) ==
    LET previous_accumulated == At(es, 0).accumulated - At(es, 0).frequency
        last_accumulated == At(es, Len(es) - 1).accumulated - previous_accumulated
        left_accumulated == At(es, i).accumulated - previous_accumulated
        right_accumulated == last_accumulated - left_accumulated
    IN  Abs(left_accumulated - right_accumulated)

\* for i, entry in enumerate(entries): best = min(best, (cost, i)), 0 skipped.
RECURSIVE FindBest(_, _, _)
FindBest(es, i, best) ==
    IF i >= Len(es) THEN best
    ELSE FindBest(es, i + 1,
                  IF i = 0 THEN best ELSE TupleMin(best, <<SplitCost(es, i), i>>))

Midpoint(es) == FindBest(es, 0, <<Huge, -1>>)[2]

\* One activation of _generate_syscall_bst.
Frame(es, lower_bound, upper_bound) ==
    [entries |-> es, lower_bound |-> lower_bound, upper_bound |-> upper_bound,
     stage |-> "call", midpoint |-> -1, right_subtree |-> None]

\* The initial call.
FirstFrame(es) == Frame(es, 0, MaxNumber)

\* RightFrame that keeps the caller's lower bound.
RightFrameLoose(f, midpoint) ==
    Frame(From(f.entries, midpoint), f.lower_bound, f.upper_bound)

\* The recursive call for the right subtree.
RightFrame(f, midpoint) ==
    Frame(From(f.entries, midpoint), At(f.entries, midpoint).number, f.upper_bound)

\* The recursive call for the left subtree.
LeftFrame(f, midpoint) ==
    Frame(Upto(f.entries, midpoint), f.lower_bound,
          At(f.entries, midpoint).number - 1)

\* RightIsTight that looks only at how many entries are left.
RightIsAlone(f, midpoint) == Len(From(f.entries, midpoint)) = 1

\* The right subtree needs no node: the bounds hold only entries[midpoint].
RightIsTight(f, midpoint) == At(f.entries, midpoint).number = f.upper_bound

\* The left subtree needs no node: the bounds hold only entries[midpoint - 1].
LeftIsTight(f, midpoint) == f.lower_bound = At(f.entries, midpoint).number - 1

\* Leaf with the comparison of the internal nodes.
LeafOrdered(entry, accept_action, reject_action) ==
    SyscallEntry(entry.number, Target(entry, accept_action), reject_action, "JGE")

Leaf(entry, accept_action, reject_action) ==
    SyscallEntry(entry.number, Target(entry, accept_action), reject_action, "JEQ")

AssertionError(what) == [kind |-> "AssertionError", what |-> what]

Top == stack[Len(stack)]

Pop == SubSeq(stack, 1, Len(stack) - 1)

AcceptAction == Allow

RejectAction == parsed_policy.default_action

\* A failed assert ends compile_file.
Raise(what) ==
    /\ pc' = "raised"
    /\ ret' = AssertionError(what)
    /\ UNCHANGED <<stack, visited>>

\* return value: the activation ends, its caller resumes.
Return(value, accepted) ==
    /\ ret' = value
    /\ stack' = Pop
    /\ visited' = visited \o accepted
    /\ pc' = pc

\* A recursive call: the caller waits at `stage`.
Call(waiting, callee, accepted) ==
    /\ stack' = Append(Pop, waiting) \o <<callee>>
    /\ ret' = None
    /\ visited' = visited \o accepted
    /\ pc' = pc

\* Lines 164-181: the left subtree, then the internal node.  f holds the
\* midpoint and the right subtree.
LeftSubtree(f, accepted) ==
    LET es == f.entries
        m == f.midpoint
    IN  IF LeftIsTight(f, m)
        THEN IF At(es, m - 1).number # f.lower_bound
             THEN Raise("entries[midpoint - 1].number == lower_bound")
             ELSE Return(SyscallEntry(At(es, m).number, f.right_subtree,
                                      Target(At(es, m - 1), AcceptAction), "JGE"),
                         accepted \o Accepted(At(es, m - 1)))
        ELSE Call([f EXCEPT !.stage = "left"], LeftFrame(f, m), accepted)

\* Lines 114-162: a fresh activation up to its return or its first recursive call.
BstCall ==
    /\ pc = "bst"
    /\ stack # <<>>
    /\ Top.stage = "call"
    /\ LET f == Top
           es == f.entries
       IN  IF es = <<>> THEN Raise("entries")
           ELSE IF Len(es) = 1
           THEN IF ~(f.lower_bound < f.upper_bound)
                THEN Raise("lower_bound < upper_bound")
                ELSE Return(Leaf(es[1], AcceptAction, RejectAction), Accepted(es[1]))
           ELSE LET m == Midpoint(es)
                IN  IF ~(m >= 1) THEN Raise("midpoint >= 1")
                    ELSE IF RightIsTight(f, m)
                    THEN LeftSubtree([f EXCEPT !.midpoint = m,
                                               !.right_subtree = Target(At(es, m), AcceptAction)],
                                     Accepted(At(es, m)))
                    ELSE Call([f EXCEPT !.midpoint = m, !.stage = "right"],
                              RightFrame(f, m), <<>>)
    /\ UNCHANGED <<policy_filename, optimization_strategy, kill_action,
                   parsed_policy, entries, policy_filter, next_action, result, arch, sim>>

\* The recursive call of line 161 has returned.
BstRightReturned ==
    /\ pc = "bst"
    /\ stack # <<>>
    /\ Top.stage = "right"
    /\ ret.kind # "none"
    /\ LeftSubtree([Top EXCEPT !.right_subtree = ret], <<>>)
    /\ UNCHANGED <<policy_filename, optimization_strategy, kill_action,
                   parsed_policy, entries, policy_filter, next_action, result, arch, sim>>

\* The recursive call of line 172 has returned: lines 177-181.
BstLeftReturned ==
    /\ pc = "bst"
    /\ stack # <<>>
    /\ Top.stage = "left"
    /\ ret.kind # "none"
    /\ Return(SyscallEntry(At(Top.entries, Top.midpoint).number,
                           Top.right_subtree, ret, "JGE"), <<>>)
    /\ UNCHANGED <<policy_filename, optimization_strategy, kill_action,
                   parsed_policy, entries, policy_filter, next_action, result, arch, sim>>

\* ------------------------------------------------------------ compile_file

\* visitor.result of the FlatteningVisitor(arch, kill_action) of compile_file:
\* the program that starts at the node accepted last.
Program(accepted, compiled_arch, kill) ==
    [kind |-> "program", arch |-> compiled_arch, kill_action |-> kill,
     root |-> accepted[Len(accepted)]]

\* bpf.simulate below the architecture guard: the kinds of the nodes tested,
\* then the name of the action reached.
RECURSIVE Walk(_, _, _)
Walk(node, syscall_number, args) ==
    CASE node.kind = "syscall" ->
            LET taken == IF node.op = "JEQ" THEN syscall_number = node.number
                         ELSE syscall_number >= node.number
            IN  <<"syscall">> \o Walk(IF taken THEN node.jt ELSE node.jf,
                                      syscall_number, args)
      [] node.kind = "action" -> <<node.name>>
      [] OTHER -> <<node.kind, Run(node, args)>>

\* bpf.simulate on a compiled program.
Simulate(program, running_arch, syscall_number, args) ==
    IF running_arch # program.arch
    THEN <<"validate_arch", program.kill_action.name>>
    ELSE <<"validate_arch">> \o Walk(program.root.next, syscall_number, args)

\* policy_parser.parse_file(policy_filename)
ParseFile ==
    /\ pc = "start"
    /\ parsed_policy' = policy_filename
    /\ pc' = "compile"
    /\ UNCHANGED <<policy_filename, optimization_strategy, kill_action, entries,
                   policy_filter, stack, ret, next_action, visited, result, arch, sim>>

\* One iteration of the list comprehension of lines 204-208.
CompileStatement ==
    /\ pc = "compile"
    /\ Len(entries) < Len(parsed_policy.filter_statements)
    /\ LET filter_statement == parsed_policy.filter_statements[Len(entries) + 1]
       IN  /\ entries' = Append(entries, compile_filter_statement(filter_statement))
           /\ policy_filter' = BuildPolicyFilter(filter_statement)
    /\ UNCHANGED <<pc, policy_filename, optimization_strategy, kill_action,
                   parsed_policy, stack, ret, next_action, visited, result, arch, sim>>

\* EmptyPolicy that flattens the accept action as the other branch does.
EmptyPolicyWithAccept ==
    /\ pc = "compile"
    /\ Len(entries) = Len(parsed_policy.filter_statements)
    /\ entries = <<>>
    /\ visited' = visited \o <<RejectAction, AcceptAction, ValidateArch(RejectAction)>>
    /\ result' = Program(visited', arch, kill_action)
    /\ pc' = "done"
    /\ UNCHANGED <<policy_filename, optimization_strategy, kill_action, parsed_policy,
                   entries, policy_filter, stack, ret, next_action, arch, sim>>

\* Lines 224-227: no entries.
EmptyPolicy ==
    /\ pc = "compile"
    /\ Len(entries) = Len(parsed_policy.filter_statements)
    /\ entries = <<>>
    /\ visited' = visited \o <<RejectAction, ValidateArch(RejectAction)>>
    /\ result' = Program(visited', arch, kill_action)
    /\ pc' = "done"
    /\ UNCHANGED <<policy_filename, optimization_strategy, kill_action, parsed_policy,
                   entries, policy_filter, stack, ret, next_action, arch, sim>>

\* Lines 218-220: every strategy but BST.
CompileEntriesLinear ==
    /\ pc = "compile"
    /\ Len(entries) = Len(parsed_policy.filter_statements)
    /\ entries # <<>>
    /\ optimization_strategy # "bst"
    /\ entries' = SortByFrequency(entries)
    /\ next_action' = compile_entries_linear(entries, AcceptAction, RejectAction)
    /\ visited' = visited \o LinearAccepted(entries', Len(entries'))
    /\ pc' = "dispatched"
    /\ UNCHANGED <<policy_filename, optimization_strategy, kill_action, parsed_policy,
                   policy_filter, stack, ret, result, arch, sim>>

\* Lines 215-217 and 106-113: sort, accumulate, and the first call of
\* _generate_syscall_bst.
BstBegin ==
    /\ pc = "compile"
    /\ Len(entries) = Len(parsed_policy.filter_statements)
    /\ entries # <<>>
    /\ optimization_strategy = "bst"
    /\ entries' = Accumulate(entries)
    /\ stack' = <<FirstFrame(entries')>>
    /\ pc' = "bst"
    /\ UNCHANGED <<policy_filename, optimization_strategy, kill_action, parsed_policy,
                   policy_filter, ret, next_action, visited, result, arch, sim>>

\* Line 183: the first call has returned.
BstEnd ==
    /\ pc = "bst"
    /\ stack = <<>>
    /\ next_action' = ret
    /\ pc' = "dispatched"
    /\ UNCHANGED <<policy_filename, optimization_strategy, kill_action, parsed_policy,
                   entries, policy_filter, stack, ret, visited, result, arch, sim>>

\* Finish that flattens the guard before the sentinels.
FinishGuardEarly ==
    /\ pc = "dispatched"
    /\ visited' = visited \o <<ValidateArch(next_action), RejectAction, AcceptAction>>
    /\ result' = Program(visited', arch, kill_action)
    /\ pc' = "done"
    /\ UNCHANGED <<policy_filename, optimization_strategy, kill_action, parsed_policy,
                   entries, policy_filter, stack, ret, next_action, arch, sim>>

\* Lines 221-223 and 227.
Finish ==
    /\ pc = "dispatched"
    /\ visited' = visited \o <<RejectAction, AcceptAction, ValidateArch(next_action)>>
    /\ result' = Program(visited', arch, kill_action)
    /\ pc' = "done"
    /\ UNCHANGED <<policy_filename, optimization_strategy, kill_action, parsed_policy,
                   entries, policy_filter, stack, ret, next_action, arch, sim>>

\* ------------------------------------------------------------ input sets

Archs == {"x86_64", "arm"}

\* The values of a syscall argument.
ArgValues == 0 .. (WordSize * WordSize - 1)

\* The argument tuples simulated: argument indices 0 and 1.
Args == ArgValues \X ArgValues

Numbers == 0 .. MaxNumber

SeqsUpTo(S, n) == UNION {[1..k -> S] : k \in 0..n}

ParsedAtom(argument_index, op, value) ==
    [argument_index |-> argument_index, op |-> op, value |-> value]

Filter(expression, action) == [expression |-> expression, action |-> action]

FilterStatement(name, number, frequency, filters) ==
    [syscall |-> [name |-> name, number |-> number], frequency |-> frequency,
     filters |-> filters]

Policy(filter_statements, default_action) ==
    [filter_statements |-> filter_statements, default_action |-> default_action]

AtomA == ParsedAtom(0, "==", 1)

AtomB == ParsedAtom(1, "!=", 2)

AtomC == ParsedAtom(1, "==", 3)

\* bpf.simulate of a program run for some architecture, number and arguments.
\* A simulation changes nothing it reads, so one per program is followed.
SimulateProgram ==
    /\ pc = "done"
    /\ sim = None
    /\ \E running_arch \in Archs, syscall_number \in Numbers, args \in Args :
          sim' = [kind |-> "program", arch |-> running_arch,
                  syscall_number |-> syscall_number, args |-> args,
                  path |-> Simulate(result, running_arch, syscall_number, args)]
    /\ UNCHANGED <<pc, policy_filename, optimization_strategy, kill_action,
                   parsed_policy, entries, policy_filter, stack, ret, next_action,
                   visited, result, arch>>

\* SyscallPolicyEntry.simulate of a compiled entry; one per entry list, as
\* for SimulateProgram.
SimulateEntry ==
    /\ entries # <<>>
    /\ sim = None
    /\ \E index \in 1..Len(entries), running_arch \in Archs,
          syscall_number \in {0, MaxNumber}, args \in Args :
          sim' = [kind |-> "entry", index |-> index, arch |-> running_arch,
                  syscall_number |-> syscall_number, args |-> args,
                  action |-> EntrySimulate(entries[index], running_arch,
                                           syscall_number, args)]
    /\ UNCHANGED <<pc, policy_filename, optimization_strategy, kill_action,
                   parsed_policy, entries, policy_filter, stack, ret, next_action,
                   visited, result, arch>>

\* ------------------------------------------------------- specifications

\* The locals of compile_file before its first statement runs.
Fresh ==
    /\ entries = <<>>
    /\ policy_filter = None
    /\ stack = <<>>
    /\ ret = None
    /\ next_action = None
    /\ visited = <<>>
    /\ result = None
    /\ sim = None

\* The statements of the policy files compiled whole.  "mmap" ends with an
\* unconditional allow after a conditional kill.
PolicyStatements ==
    { FilterStatement("read", 0, 100, <<Filter(<<>>, Allow)>>),
      FilterStatement("write", 1, 50,
                      <<Filter(<< <<AtomA>> >>, Allow), Filter(<<>>, KillProcess)>>),
      FilterStatement("ioctl", 2, 1,
                      <<Filter(<< <<AtomA, AtomB>>, <<AtomC>> >>, ReturnErrno),
                        Filter(<< <<AtomA>> >>, Allow),
                        Filter(<<>>, KillProcess)>>),
      FilterStatement("mmap", MaxNumber, 50,
                      <<Filter(<< <<AtomA>> >>, KillProcess), Filter(<<>>, Allow)>>) }

DistinctNumbers(statements) ==
    \A i, j \in 1..Len(statements) :
        i # j => statements[i].syscall.number # statements[j].syscall.number

\* compile_file is called on a policy file.
Init ==
    /\ pc = "start"
    /\ \E statements \in SeqsUpTo(PolicyStatements, MaxStatements),
          default_action \in {KillProcess, ReturnErrno} :
          /\ DistinctNumbers(statements)
          /\ policy_filename = Policy(statements, default_action)
    /\ optimization_strategy \in {"linear", "bst", "fast"}
    /\ kill_action \in {KillProcess, KillThread}
    /\ arch \in Archs
    /\ parsed_policy = None
    /\ Fresh

Next ==
    \/ ParseFile
    \/ CompileStatement
    \/ EmptyPolicy
    \/ CompileEntriesLinear
    \/ BstBegin
    \/ BstCall
    \/ BstRightReturned
    \/ BstLeftReturned
    \/ BstEnd
    \/ Finish
    \/ SimulateProgram

Spec == Init /\ [][Next]_vars

\* The expressions of the clauses of the statements compiled one by one.
Expressions ==
    { << <<AtomA>> >>, << <<AtomA, AtomB>> >>, << <<AtomB, AtomA>>, <<AtomC>> >> }

Filters == {Filter(e, a) : e \in Expressions, a \in {Allow, KillProcess, ReturnErrno}}

\* The last clause of a statement; the parser gives it no expression, and
\* one is given here to see that it is not read.
LastFilters ==
    {Filter(<<>>, a) : a \in {Allow, KillProcess, ReturnErrno}}
        \cup {Filter(<< <<AtomA>> >>, KillProcess)}

\* compile_file has parsed a policy of one statement.
InitStatement ==
    /\ pc = "compile"
    /\ \E filters \in SeqsUpTo(Filters, MaxFilters - 1), last \in LastFilters :
          policy_filename =
              Policy(<<FilterStatement("ioctl", 2, 1, filters \o <<last>>)>>, KillProcess)
    /\ parsed_policy = policy_filename
    /\ optimization_strategy = "linear"
    /\ kill_action = KillProcess
    /\ arch = "x86_64"
    /\ Fresh

NextStatement == CompileStatement \/ SimulateEntry

SpecStatement == InitStatement /\ [][NextStatement]_vars

Frequencies == {0, 1, 2}

\* A statement whose compiled filter differs from that of every other number.
DispatchStatement(number, frequency, conditional) ==
    FilterStatement("syscall", number, frequency,
                    IF conditional
                    THEN <<Filter(<< <<ParsedAtom(0, "==", number)>> >>, Allow),
                           Filter(<<>>, KillProcess)>>
                    ELSE <<Filter(<<>>, Allow)>>)

\* The numbers of S in ascending order.
RECURSIVE Ascending(_)
Ascending(S) ==
    IF S = {} THEN <<>>
    ELSE LET least == CHOOSE x \in S : \A y \in S : x <= y
         IN  <<least>> \o Ascending(S \ {least})

Reverse(s) == [k \in 1..Len(s) |-> s[Len(s) + 1 - k]]

\* The statements behind an entry list handed to the dispatch compilers.
DispatchPolicy(order, frequency, conditional) ==
    [k \in 1..Len(order) |->
        DispatchStatement(order[k], frequency[order[k]], conditional[order[k]])]

\* The list comprehension of lines 204-208, whole.
CompileAll(statements) ==
    [k \in 1..Len(statements) |-> compile_filter_statement(statements[k])]

\* compile_file has compiled its statements into entries: distinct numbers,
\* in ascending or descending order of number.
InitDispatch ==
    /\ pc = "compile"
    /\ \E S \in SUBSET Numbers :
          /\ S # {}
          /\ Cardinality(S) <= MaxEntries
          /\ \E frequency \in [S -> Frequencies], conditional \in [S -> BOOLEAN],
                order \in {Ascending(S), Reverse(Ascending(S))} :
                policy_filename =
                    Policy(DispatchPolicy(order, frequency, conditional), KillProcess)
    /\ parsed_policy = policy_filename
    /\ entries = CompileAll(parsed_policy.filter_statements)
    /\ optimization_strategy \in {"linear", "bst"}
    /\ kill_action = KillProcess
    /\ arch = "x86_64"
    /\ policy_filter = None
    /\ stack = <<>>
    /\ ret = None
    /\ next_action = None
    /\ visited = <<>>
    /\ result = None
    /\ sim = None

NextDispatch ==
    \/ CompileEntriesLinear
    \/ BstBegin
    \/ BstCall
    \/ BstRightReturned
    \/ BstLeftReturned
    \/ BstEnd

SpecDispatch == InitDispatch /\ [][NextDispatch]_vars

\* ------------------------------------------------------------- properties

\* What the policy says, read off its text.

AtomHolds(atom, args) == Compare(atom.op, args[atom.argument_index + 1], atom.value)

ExpressionHolds(expression, args) ==
    \E c \in 1..Len(expression) :
        \A k \in 1..Len(expression[c]) : AtomHolds(expression[c][k], args)

\* The clauses but the last whose expression holds.
Matching(filters, args) ==
    {k \in 1..(Len(filters) - 1) : ExpressionHolds(filters[k].expression, args)}

\* The action of the earliest clause that holds, else that of the last clause.
FirstMatch(filters, args) ==
    IF Matching(filters, args) = {} THEN filters[Len(filters)].action
    ELSE filters[CHOOSE k \in Matching(filters, args) :
                    \A j \in Matching(filters, args) : k <= j].action

LastAction(filter_statement) ==
    filter_statement.filters[Len(filter_statement.filters)].action

Compiled(i) == parsed_policy.filter_statements[i]

\* The kinds of the nodes of an argument DAG.
RECURSIVE Kinds(_)
Kinds(node) ==
    {node.kind} \cup
    (IF node.kind \in {"atom", "wide"} THEN Kinds(node.jt) \cup Kinds(node.jf)
     ELSE IF node.kind = "block" THEN Kinds(node.root) ELSE {})

\* C3: a statement whose last clause allows compiles to an entry without a
\* filter, whatever its earlier clauses are: no DAG is built, and simulating
\* the entry gives ALLOW for every architecture, number and argument tuple.
DefaultAllowShortcut ==
    /\ \A i \in 1..Len(entries) :
          LastAction(Compiled(i)) = Allow =>
              /\ entries[i].filter = None
              /\ i = Len(entries) => policy_filter = None
    /\ sim.kind = "entry" =>
          (LastAction(Compiled(sim.index)) = Allow => sim.action = "ALLOW")

\* C3 happens: an entry whose statement ends in allow was simulated with
\* arguments for which an earlier clause kills.
DefaultAllowShortcutWitness ==
    /\ sim.kind = "entry"
    /\ LastAction(Compiled(sim.index)) = Allow
    /\ FirstMatch(Compiled(sim.index).filters, sim.args) = KillProcess
    /\ sim.arch = "arm"
    /\ sim.syscall_number = MaxNumber

\* C9: when the last clause does not allow, the DAG built before lowering
\* ends, for every argument tuple, at the action of the earliest clause but
\* the last with a conjunction that holds, and at the last clause's action
\* when there is none; the last clause's expression is not read.
FirstMatchLowering ==
    \A i \in 1..Len(entries) :
        (i = Len(entries) /\ LastAction(Compiled(i)) # Allow) =>
            /\ Kinds(policy_filter) \subseteq {"atom", "action"}
            /\ \A args \in Args :
                  Run(policy_filter, args) = FirstMatch(Compiled(i).filters, args).name

\* C9 happens: a statement of three clauses, the last with an expression of
\* its own, where for some arguments only the second clause holds, for some
\* both earlier clauses hold, and for some none does.
FirstMatchLoweringWitness ==
    /\ Len(entries) = 1
    /\ LastAction(Compiled(1)) = KillProcess
    /\ policy_filter.kind = "atom"
    /\ LET filters == Compiled(1).filters
       IN  /\ Len(filters) = 3
           /\ filters[3].expression # <<>>
           /\ filters[1].action # filters[2].action
           /\ filters[2].action # filters[3].action
           /\ \E args \in Args : Matching(filters, args) = {2}
           /\ \E args \in Args : Matching(filters, args) = {1, 2}
           /\ \E args \in Args : Matching(filters, args) = {}

\* The terminal a dispatch structure sends a syscall number to.
RECURSIVE Route(_, _)
Route(node, n) ==
    IF node.kind # "syscall" THEN node
    ELSE Route(IF (IF node.op = "JEQ" THEN n = node.number ELSE n >= node.number)
               THEN node.jt ELSE node.jf, n)

\* The entries as compile_file handed them over, before any sort.
GivenEntries == CompileAll(parsed_policy.filter_statements)

\* The terminal the policy asks for: the filter of the entry numbered n, the
\* accept action when that entry has no filter, the reject action when no
\* entry is numbered n.
Wanted(n) ==
    IF \E i \in 1..Len(GivenEntries) : GivenEntries[i].number = n
    THEN LET i == CHOOSE i \in 1..Len(GivenEntries) : GivenEntries[i].number = n
         IN  IF HasFilter(GivenEntries[i]) THEN GivenEntries[i].filter ELSE AcceptAction
    ELSE RejectAction

BstBuilt == pc = "dispatched" /\ optimization_strategy = "bst"

\* C2: the tree of _compile_entries_bst and the chain of
\* _compile_entries_linear, built from the same entries and sentinels, send
\* every syscall number to the same terminal.
StrategyAgreement ==
    BstBuilt =>
        \A n \in Numbers :
            Route(next_action, n) =
                Route(compile_entries_linear(GivenEntries, AcceptAction, RejectAction), n)

\* C2 happens: a tree over the most entries, some with a filter and some
\* without, some numbers without an entry, frequencies that reorder the chain.
StrategyAgreementWitness ==
    /\ BstBuilt
    /\ Len(entries) = MaxEntries
    /\ \E i, j \in 1..Len(entries) : HasFilter(entries[i]) /\ ~HasFilter(entries[j])
    /\ \E n \in Numbers : Wanted(n) = RejectAction
    /\ SortByFrequency(GivenEntries) # GivenEntries
    /\ SortByFrequency(GivenEntries) # entries

\* The >= nodes of a tree.
RECURSIVE Internal(_)
Internal(node) ==
    IF node.kind # "syscall" \/ node.op # "JGE" THEN 0
    ELSE 1 + Internal(node.jt) + Internal(node.jf)

\* The numbers a tree rooted at a node for lower_bound.. resolves, one for
\* each place: an equality leaf resolves its number, a >= node whose branch
\* is no node resolves its own number (right) or the one below it (left).
RECURSIVE Resolved(_)
Resolved(node) ==
    IF node.kind # "syscall" THEN <<>>
    ELSE IF node.op = "JEQ" THEN <<node.number>>
    ELSE (IF node.jf.kind = "syscall" THEN Resolved(node.jf) ELSE <<node.number - 1>>)
         \o (IF node.jt.kind = "syscall" THEN Resolved(node.jt) ELSE <<node.number>>)

\* C6: the tree resolves each of the N entries at one place, has N - 1
\* internal nodes, sends the number of an entry to that entry's terminal and
\* every other number to the reject action.
BstRouting ==
    BstBuilt =>
        /\ Resolved(next_action) = [k \in 1..Len(entries) |-> entries[k].number]
        /\ Internal(next_action) = Len(entries) - 1
        /\ \A n \in Numbers : Route(next_action, n) = Wanted(n)

\* C6 happens: a tree of the most entries with an equality leaf and a direct
\* branch, with and without filters, and a number to reject.
BstRoutingWitness ==
    /\ BstBuilt
    /\ Len(entries) = MaxEntries
    /\ Internal(next_action) = MaxEntries - 1
    /\ \E i, j \in 1..Len(entries) : HasFilter(entries[i]) /\ ~HasFilter(entries[j])
    /\ \E n \in Numbers : Wanted(n) = RejectAction
    /\ next_action.jt.kind # "syscall" \/ next_action.jf.kind # "syscall"
    /\ next_action.jt.kind = "syscall" \/ next_action.jf.kind = "syscall"

\* The frequencies of es[a..b] added up.
RECURSIVE Weight(_, _, _)
Weight(es, a, b) == IF a > b THEN 0 ELSE es[a].frequency + Weight(es, a + 1, b)

\* The difference between the weight of the entries before index i and the
\* weight of the entries after it (i counts from 0).
StrictCost(es, i) == Abs(Weight(es, 1, i) - Weight(es, i + 2, Len(es)))

\* The activations that have chosen their split.
Split == {k \in 1..Len(stack) : stack[k].midpoint # -1}

\* C8: the split index of every internal node is at least 1, less than the
\* number of entries, and the least index that minimises the difference
\* between the weight strictly left of it and the weight strictly right of it.
SplitChoice ==
    \A k \in Split :
        LET es == stack[k].entries
            m == stack[k].midpoint
        IN  /\ m \in 1..(Len(es) - 1)
            /\ \A j \in 1..(Len(es) - 1) :
                  \/ StrictCost(es, m) < StrictCost(es, j)
                  \/ (StrictCost(es, m) = StrictCost(es, j) /\ m <= j)

\* The numbers of the entries within lo..hi.
Within(lo, hi) ==
    {entries[k].number : k \in {j \in 1..Len(entries) :
                                    lo <= entries[j].number /\ entries[j].number <= hi}}

\* An activation as C10 describes it.
FrameInBounds(f) ==
    /\ f.entries # <<>>
    /\ \E a \in 1..Len(entries) :
          f.entries = SubSeq(entries, a, a + Len(f.entries) - 1)
    /\ \A k \in 1..Len(f.entries) :
          f.lower_bound <= f.entries[k].number /\ f.entries[k].number <= f.upper_bound
    /\ Len(f.entries) = 1 => f.lower_bound < f.upper_bound
    /\ f.midpoint # -1 => f.midpoint >= 1 /\ f.midpoint < Len(f.entries)

\* A subtree built for lo..hi as C10 describes it: a branch leads to no node
\* exactly when its range holds one value, the number of an entry.
RECURSIVE TreeInBounds(_, _, _)
TreeInBounds(node, lo, hi) ==
    /\ node.kind = "syscall"
    /\ lo < hi
    /\ IF node.op = "JEQ" THEN Within(lo, hi) = {node.number}
       ELSE /\ lo < node.number /\ node.number <= hi
            /\ IF node.number = hi
               THEN node.jt.kind # "syscall" /\ Within(hi, hi) = {hi}
               ELSE TreeInBounds(node.jt, node.number, hi)
            /\ IF lo = node.number - 1
               THEN node.jf.kind # "syscall" /\ Within(lo, lo) = {lo}
               ELSE TreeInBounds(node.jf, lo, node.number - 1)

Sorted(es) == \A k \in 1..(Len(es) - 1) : es[k].number < es[k + 1].number

\* C10: every activation of _generate_syscall_bst holds a non-empty slice
\* of the sorted entries with all its numbers within its bounds, a single
\* entry only between bounds that differ; branches skip the leaf exactly when
\* their range is one value; no assertion fails.
BstBounds ==
    /\ pc # "raised"
    /\ pc = "bst" => Sorted(entries) /\ \A k \in 1..Len(stack) : FrameInBounds(stack[k])
    /\ BstBuilt => TreeInBounds(next_action, 0, MaxNumber)

\* C10 happens: the right branch of the root went straight to its entry, and
\* the call for the left subtree holds a single entry between loose bounds.
BstBoundsWitness ==
    /\ pc = "bst"
    /\ Len(stack) = 2
    /\ stack[1].stage = "left"
    /\ stack[1].right_subtree.kind # "syscall"
    /\ stack[2].stage = "call"
    /\ Len(stack[2].entries) = 1
    /\ stack[2].lower_bound < stack[2].upper_bound

Last(path) == path[Len(path)]

Recognised == optimization_strategy \in {"linear", "bst"}

\* The action the policy gives syscall n with these arguments, read off its
\* text: first match within the statement numbered n, the default action when
\* there is no such statement.
PolicyAction(policy, n, args) ==
    LET statements == policy.filter_statements
        numbered == {i \in 1..Len(statements) : statements[i].syscall.number = n}
    IN  IF numbered = {} THEN policy.default_action
        ELSE FirstMatch(statements[CHOOSE i \in numbered : TRUE].filters, args)

\* C1: simulating the compiled program on the architecture it was compiled
\* for gives, for every syscall number and argument tuple, the action the
\* policy's clauses give.
Equivalence ==
    (sim.kind = "program" /\ Recognised /\ sim.arch = arch) =>
        Last(sim.path) = PolicyAction(parsed_policy, sim.syscall_number, sim.args).name

\* C4: the program starts at the architecture guard, which wraps the dispatch
\* root; on another architecture the guard alone is tested and the outcome is
\* the kill action, whatever the number and the arguments.
ArchitectureGuardFirst ==
    /\ pc = "done" =>
          /\ result.root = visited[Len(visited)]
          /\ result.root.kind = "validate_arch"
          /\ result.root.next = (IF entries = <<>> THEN RejectAction ELSE next_action)
          /\ \A k \in 1..(Len(visited) - 1) : visited[k].kind # "validate_arch"
    /\ sim.kind = "program" =>
          /\ sim.path[1] = "validate_arch"
          /\ sim.arch # arch => sim.path = <<"validate_arch", kill_action.name>>

\* C4 happens: a program with entries, compiled with a default action other
\* than the kill action, was simulated on the other architecture for a number
\* that has an entry with a filter.
ArchitectureGuardFirstWitness ==
    /\ sim.kind = "program"
    /\ sim.arch # arch
    /\ Len(entries) = MaxStatements
    /\ RejectAction # kill_action
    /\ \E i \in 1..Len(entries) :
          entries[i].number = sim.syscall_number /\ HasFilter(entries[i])

\* C5: a policy without statements compiles, under any strategy, to the
\* architecture guard around the declared default action and nothing else,
\* and every syscall number simulated on the compiled architecture gives that
\* default action.
EmptyPolicyDefault ==
    (pc = "done" /\ parsed_policy.filter_statements = <<>>) =>
        /\ visited = <<parsed_policy.default_action,
                       ValidateArch(parsed_policy.default_action)>>
        /\ result.root = ValidateArch(parsed_policy.default_action)
        /\ (sim.kind = "program" /\ sim.arch = arch) =>
              sim.path = <<"validate_arch", parsed_policy.default_action.name>>

\* C5 happens: an empty policy whose default action is not the kill action,
\* compiled with the BST strategy, was simulated on its architecture.
EmptyPolicyDefaultWitness ==
    /\ pc = "done"
    /\ parsed_policy.filter_statements = <<>>
    /\ optimization_strategy = "bst"
    /\ parsed_policy.default_action # kill_action
    /\ sim.kind = "program"
    /\ sim.arch = arch
    /\ sim.syscall_number = MaxNumber

\* C7: with a strategy that is neither linear nor bst, compile_file stops
\* with an error before it parses or compiles anything, and returns no
\* program.
StrategyRejected ==
    ~Recognised =>
        /\ pc \in {"start", "raised"}
        /\ parsed_policy = None
        /\ entries = <<>>
        /\ result = None

=============================================================================
